---- MODULE Spec2Model ----
(***************************************************************************)
(* Model of the ESP32 PT100 MQTT gateway (src/src/main.cpp): the boot      *)
(* sequence setup(), the cooperative loop() with its connectivity check    *)
(* and telemetry block, the blocking connectWiFi(), and the two OTA        *)
(* callbacks onOtaProgress / onOtaCompleted.                               *)
(*                                                                         *)
(* The Session Client (ThingsBoard), the link (WiFi), the sensor (pt100)   *)
(* and millis() are the environment: their answers are state variables     *)
(* changed by environment actions, or inputs drawn with \E.                *)
(***************************************************************************)
EXTENDS Integers, Sequences, FiniteSets, TLC

(***************************************************************************)
(* Program constants                                                       *)
(***************************************************************************)
TELEMETRY_INTERVAL_MS == 900000
CONNECTION_CHECK_MS == 1000
SETUP_DELAY_MS == 1000
WIFI_RETRY_DELAY_MS == 500
OTA_PROGRESS_EVERY == 10
OTA_RETRY_LIMIT == 24
MQTT_PORT == 1883
PT100_NOMINAL_RESISTANCE == 100

\* unsigned long on the ESP32 is 32 bits wide: millis() and the two
\* last-fired marks live in 0 .. 2^32 - 1.  Such a value is held as two
\* 16-bit limbs <<hi, lo>>, standing for hi * 2^16 + lo, and the arithmetic
\* below is the arithmetic of the 32-bit register.
Limb == 2 ^ 16

\* The unsigned long with value x, for 0 <= x < 2^31.
U32(x) == << x \div Limb, x % Limb >>

\* a + b on unsigned long operands (the carry out of bit 31 is lost).
AddU32(a, b) ==
    LET lo == a[2] + b[2]
    IN  << (a[1] + b[1] + lo \div Limb) % Limb, lo % Limb >>

\* The carry out of bit 31 in a + b.
CarryU32(a, b) == (a[1] + b[1] + (a[2] + b[2]) \div Limb) \div Limb

\* a - b on unsigned long operands (wraps below zero).
SubU32(a, b) ==
    LET borrow == IF a[2] < b[2] THEN 1 ELSE 0
    IN  << (a[1] - b[1] - borrow + Limb) % Limb, (a[2] - b[2] + Limb) % Limb >>

\* a >= b and a < b on unsigned long operands.
GeU32(a, b) == a[1] > b[1] \/ (a[1] = b[1] /\ a[2] >= b[2])
LtU32(a, b) == ~GeU32(a, b)

\* True time: the number of times millis() has wrapped, and millis().
Time(w, m) == [wraps |-> w, ms |-> m]
Advance(c, d) == Time(c.wraps + CarryU32(c.ms, d), AddU32(c.ms, d))

\* True time from..to is at least p milliseconds (p an unsigned long).
TrueElapsedGe(from, to, p) ==
    LET w == to.wraps - from.wraps - (IF LtU32(to.ms, from.ms) THEN 1 ELSE 0)
    IN  w > 0 \/ (w = 0 /\ GeU32(SubU32(to.ms, from.ms), p))

\* True time from..to is below 2^32 milliseconds.
TrueSpanBelowRange(from, to) ==
    to.wraps - from.wraps - (IF LtU32(to.ms, from.ms) THEN 1 ELSE 0) = 0

FIRMWARE_VERSION == "1.3.0"
MQTT_SERVER == "mqtt.thingsboard.cloud"
DEVICE_TYPE_COLD_STORAGE == 1
DEVICE_TYPE_GENERIC == 2
DEVICE_TYPE == DEVICE_TYPE_COLD_STORAGE

(***************************************************************************)
(* Bounds of the model                                                     *)
(***************************************************************************)
\* loop() iterations, delay(500) rounds of connectWiFi() and drops of the
\* link or the session, all together, since boot
MaxSteps == 4
\* onOtaProgress calls since boot, in the specification of the loop
MaxLoopOtaCalls == 1
\* onOtaProgress calls since boot, in the specification of the callbacks
MaxOtaCalls == 31

\* Where the counts of drops, delays and failed attempts stop growing in the
\* specification of the loop that runs for ever
LiveCap == 2

\* Time that passes between the now of one loop() iteration and the next.
\* Two short steps reach the connectivity period exactly, a long and a short
\* one the telemetry period exactly, and the last one carries millis() to
\* the 32-bit wrap-around.
ShortStep == U32(CONNECTION_CHECK_MS \div 2)
LongStep == U32(TELEMETRY_INTERVAL_MS - CONNECTION_CHECK_MS \div 2)
WrapStep == SubU32(U32(0), U32(TELEMETRY_INTERVAL_MS))
Deltas == {ShortStep, LongStep, WrapStep}

\* Sensor readings: a plausible temperature and the value the driver yields
\* on a shorted RTD (a fault reading, below absolute zero is not filtered).
FaultSample == 0 - 242
Samples == {25, FaultSample}

\* (chunk, total) pairs handed to the progress callback.
OtaTotal == 2
OtaChunks == 0 .. OtaTotal

VARIABLES
    \* ---- program state (globals of main.cpp) ----
    pc,                         \* "setup", "connectWiFi", "loop"
    caller,                     \* who called connectWiFi: "setup" or "loop"
    now,                        \* loop()'s local `now` (kept while blocked)
    firmwareTitle,
    lastTelemetryMillis,
    lastConnectionCheckMillis,
    sendInitialTelemetry,
    temperatureCelsius,
    mqttConnected,
    telemetryJson,
    jsonBuffer,
    counter,                    \* static int counter of onOtaProgress
    \* ---- environment ----
    clock,                      \* true time in ms since boot, not wrapped
    wifiUp,                     \* WiFi.status() == WL_CONNECTED
    sessionUp,                  \* thingsboard.connected()
    otaArmed,                   \* an OTA_Update_Callback is subscribed
    \* ---- history (what the last loop() iteration did, and counts) ----
    ticks,
    waits,
    drops,
    calls,
    iter,
    tempId,
    sampleSeq,
    published,
    lastPub,
    dropped,
    nConnectOk,
    nSubscribe,
    failStreak,
    streakSubs,
    nowClock,                   \* true time at which `now` was read
    telClock,                   \* true time of the last telemetry action's now
    otaCalls,
    otaEmits,
    otaEmitAt,
    otaPercent,
    otaFailed,
    otaDone                     \* the last call of onOtaCompleted since boot

progVars == <<pc, caller, now, firmwareTitle, lastTelemetryMillis,
              lastConnectionCheckMillis, sendInitialTelemetry,
              temperatureCelsius, mqttConnected, telemetryJson, jsonBuffer,
              counter>>
envVars == <<clock, wifiUp, sessionUp, otaArmed>>
histVars == <<ticks, waits, drops, calls, iter, tempId, sampleSeq,
              published, lastPub, dropped, nConnectOk, nSubscribe, failStreak,
              streakSubs, nowClock, telClock>>
otaHist == <<otaCalls, otaEmits, otaEmitAt, otaPercent, otaFailed, otaDone>>
vars == <<progVars, envVars, histVars, otaHist>>

\* What has been spent of MaxSteps.
Steps == ticks + waits + drops

(***************************************************************************)
(* Helpers                                                                 *)
(***************************************************************************)
\* millis(): the free-running millisecond counter, an unsigned long.
Millis(c) == c.ms

\* now - last on unsigned long operands.
Elapsed(n, last) == SubU32(n, last)

\* now - last >= period the way a comparison against last + period gives it.
TimerDue_AddsPeriod(n, last, period) == GeU32(n, AddU32(last, U32(period)))

\* now - last >= period, the fire condition of both timers.
TimerDue(n, last, period) == GeU32(Elapsed(n, last), U32(period))

\* One call to a collaborator: its name, two string arguments, a numeric one.
Call(op, str, str2, num) == [op |-> op, str |-> str, str2 |-> str2, num |-> num]

\* serializeJson(telemetryJson, jsonBuffer): the document's members in order.
\* The documents of this program hold at most one member.
SerializeJson(doc) == IF doc = {} THEN << >> ELSE << CHOOSE m \in doc : TRUE >>

\* The record of an iteration before it has done anything.
NoIter == [n |-> U32(0), connDue |-> FALSE, connFired |-> FALSE, blocked |-> FALSE,
           query |-> "none", connectCalled |-> FALSE, connectOk |-> FALSE,
           returned |-> FALSE, telDue |-> FALSE, telFired |-> FALSE,
           published |-> FALSE, flagAtTel |-> FALSE, sample |-> 0,
           polled |-> FALSE,
           chkMqtt |-> FALSE, chkLastTel |-> U32(0), chkSendInit |-> FALSE,
           preMqtt |-> FALSE, preLastTel |-> U32(0), preSendInit |-> FALSE,
           preLastConn |-> U32(0), preSubs |-> 0, chkLastConn |-> U32(0),
           streak |-> 0, telFirst |-> FALSE, telGapOk |-> FALSE,
           flagAtInfo |-> FALSE, linkSeen |-> FALSE, chkSession |-> FALSE,
           okSeen |-> FALSE, okN |-> U32(0), okClock |-> Time(0, U32(0)),
           telTimer |-> FALSE, telTrue |-> FALSE, telSpan |-> FALSE,
           connTrue |-> FALSE, connSpan |-> FALSE]

\* No telemetry has been published yet.
NoPub == [id |-> 0, payload |-> << >>, again |-> FALSE]

\* onOtaCompleted has not been called since the boot sequence ran.
NoOtaDone == [called |-> FALSE, success |-> FALSE, failedBefore |-> FALSE]

\* The part of the state one loop() iteration works on.
LoopState == [mqttConnected |-> mqttConnected,
              lastConnectionCheckMillis |-> lastConnectionCheckMillis,
              lastTelemetryMillis |-> lastTelemetryMillis,
              sendInitialTelemetry |-> sendInitialTelemetry,
              temperatureCelsius |-> temperatureCelsius,
              telemetryJson |-> telemetryJson,
              jsonBuffer |-> jsonBuffer,
              sessionUp |-> sessionUp,
              otaArmed |-> otaArmed,
              calls |-> calls,
              tempId |-> tempId,
              sampleSeq |-> sampleSeq,
              published |-> published,
              lastPub |-> lastPub,
              dropped |-> dropped,
              nConnectOk |-> nConnectOk,
              nSubscribe |-> nSubscribe,
              failStreak |-> failStreak,
              streakSubs |-> streakSubs,
              nowClock |-> nowClock,
              telClock |-> telClock,
              iter |-> iter]


(***************************************************************************)
(* loop(), lines 226-252: the connectivity check after                     *)
(* ensureWiFiConnection() has returned.                                    *)
(***************************************************************************)
\* The steps of lines 234-249 with the subscription armed first and the
\* flag set last.
SessionEstablished_ArmsFirst(s, n) ==
    [s EXCEPT !.mqttConnected = TRUE,
              !.sessionUp = TRUE,
              !.otaArmed = TRUE,
              !.calls = s.calls \o
                  << Call("Subscribe_Firmware_Update", firmwareTitle,
                          FIRMWARE_VERSION, OTA_RETRY_LIMIT),
                     Call("Firmware_Send_Info", firmwareTitle, FIRMWARE_VERSION, 0),
                     Call("Firmware_Send_State", "UPDATED", "", 0) >>,
              !.nConnectOk = @ + 1,
              !.nSubscribe = @ + 1,
              !.streakSubs = @ + 1,
              !.iter = [@ EXCEPT !.connectOk = TRUE, !.streak = s.failStreak,
                                 !.flagAtInfo = s.mqttConnected],
              !.failStreak = 0]

\* Lines 234-249: what follows a successful thingsboard.connect().  The flag
\* is set at line 234, before the three calls of lines 236-249.
SessionEstablished(s, n) ==
    LET f == [s EXCEPT !.mqttConnected = TRUE]
    IN  [f EXCEPT !.sessionUp = TRUE,
                  !.otaArmed = TRUE,
                  !.calls = s.calls \o
                      << Call("Firmware_Send_Info", firmwareTitle, FIRMWARE_VERSION, 0),
                         Call("Firmware_Send_State", "UPDATED", "", 0),
                         Call("Subscribe_Firmware_Update", firmwareTitle,
                              FIRMWARE_VERSION, OTA_RETRY_LIMIT) >>,
                  !.nConnectOk = @ + 1,
                  !.nSubscribe = @ + 1,
                  !.streakSubs = @ + 1,
                  !.iter = [@ EXCEPT !.connectOk = TRUE, !.streak = s.failStreak,
                                     !.flagAtInfo = f.mqttConnected],
                  !.failStreak = 0]

\* A failure branch without its return: it falls through to lines 234-249.
SessionFailed_FallsThrough(s, n) ==
    [s EXCEPT !.mqttConnected = TRUE,
              !.otaArmed = TRUE,
              !.calls = s.calls \o
                  << Call("Firmware_Send_Info", firmwareTitle,
                          FIRMWARE_VERSION, 0),
                     Call("Firmware_Send_State", "UPDATED", "", 0),
                     Call("Subscribe_Firmware_Update", firmwareTitle,
                          FIRMWARE_VERSION, OTA_RETRY_LIMIT) >>,
              !.nSubscribe = @ + 1,
              !.streakSubs = @ + 1,
              !.failStreak = @ + 1,
              !.lastConnectionCheckMillis = n]

\* A failure branch that marks the check as done and lets the iteration go
\* on to the telemetry block.
SessionFailed_GoesOn(s, n) ==
    [s EXCEPT !.failStreak = @ + 1,
              !.lastConnectionCheckMillis = n]

\* Lines 229-232: thingsboard.connect() returned false.
SessionFailed(s, n) ==
    [s EXCEPT !.failStreak = @ + 1,
              !.iter = [@ EXCEPT !.returned = TRUE]]

\* Line 252: the check is done, with the session found or established.
CheckDone(s, n) ==
    [s EXCEPT !.lastConnectionCheckMillis = n,
              !.iter = [@ EXCEPT !.okSeen = TRUE,
                                 !.okN = n,
                                 !.okClock = s.nowClock]]

\* The query of line 226, with its note in the iteration record.
SessionQuery(s) ==
    [s EXCEPT !.calls = Append(@, Call("connected", "", "", 0)),
              !.iter = [@ EXCEPT !.connFired = TRUE,
                                 !.query = IF s.sessionUp THEN "up"
                                           ELSE "down"]]

\* A check that arms the update subscription again on every tick.
ConnectivityCheck_Rearm(s, n, ok) ==
    LET q == SessionQuery(s)
        d == [q EXCEPT !.calls = Append(@, Call("connect", MQTT_SERVER, "",
                                                MQTT_PORT)),
                       !.iter = [@ EXCEPT !.connectCalled = ~q.sessionUp]]
    IN  IF q.sessionUp
        THEN [q EXCEPT !.lastConnectionCheckMillis = n,
                       !.nSubscribe = @ + 1,
                       !.calls = Append(@, Call("Subscribe_Firmware_Update",
                                                firmwareTitle,
                                                FIRMWARE_VERSION,
                                                OTA_RETRY_LIMIT))]
        ELSE IF ~ok
             THEN [d EXCEPT !.mqttConnected = FALSE,
                            !.failStreak = @ + 1,
                            !.iter = [@ EXCEPT !.returned = TRUE]]
             ELSE [SessionEstablished(d, n)
                      EXCEPT !.lastConnectionCheckMillis = n]

\* A check that marks the session lost and never calls connect again.
ConnectivityCheck_NoRetry(s, n, ok) ==
    LET q == SessionQuery(s)
    IN  IF q.sessionUp
        THEN [q EXCEPT !.lastConnectionCheckMillis = n]
        ELSE IF q.otaArmed
             THEN [q EXCEPT !.mqttConnected = FALSE,
                            !.lastConnectionCheckMillis = n]
             ELSE LET d == [q EXCEPT
                              !.mqttConnected = FALSE,
                              !.calls = Append(@, Call("connect", MQTT_SERVER,
                                                       "", MQTT_PORT)),
                              !.iter = [@ EXCEPT !.connectCalled = TRUE]]
                  IN  IF ~ok
                      THEN SessionFailed(d, n)
                      ELSE [SessionEstablished(d, n)
                               EXCEPT !.lastConnectionCheckMillis = n]

\* A check that does not ask the Session Client while the flag is set.
ConnectivityCheck_TrustsFlag(s, n, ok) ==
    LET q == SessionQuery(s)
    IN  IF q.sessionUp \/ q.mqttConnected
        THEN CheckDone(q, n)
        ELSE LET d == [q EXCEPT
                         !.mqttConnected = FALSE,
                         !.streakSubs = IF q.failStreak = 0 THEN 0 ELSE @,
                         !.calls = Append(@, Call("connect", MQTT_SERVER, "",
                                                  MQTT_PORT)),
                         !.iter = [@ EXCEPT !.connectCalled = TRUE]]
             IN  IF ~ok
                 THEN SessionFailed(d, n)
                 ELSE CheckDone(SessionEstablished(d, n), n)

\* Lines 226-252. ok is the answer of thingsboard.connect(), when it is asked.
ConnectivityCheck(s, n, ok) ==
    LET q == SessionQuery(s)
    IN  IF q.sessionUp
        THEN CheckDone(q, n)
        ELSE LET d == [q EXCEPT
                         !.mqttConnected = FALSE,
                         !.streakSubs = IF q.failStreak = 0 THEN 0 ELSE @,
                         !.calls = Append(@, Call("connect", MQTT_SERVER, "",
                                                  MQTT_PORT)),
                         !.iter = [@ EXCEPT !.connectCalled = TRUE]]
             IN  IF ~ok
                 THEN SessionFailed(d, n)
                 ELSE CheckDone(SessionEstablished(d, n), n)

(***************************************************************************)
(* loop(), lines 255-271: the telemetry block.                             *)
(***************************************************************************)
\* A fire condition with > for >=.
TelemetryFires_Late(s, n) ==
    \/ ~GeU32(U32(TELEMETRY_INTERVAL_MS),
              Elapsed(n, s.lastTelemetryMillis))
    \/ s.sendInitialTelemetry

\* Line 255.
TelemetryFires(s, n) ==
    \/ TimerDue(n, s.lastTelemetryMillis, TELEMETRY_INTERVAL_MS)
    \/ s.sendInitialTelemetry

\* A publish that does not look at the flag.
PublishAllowed_Always(s) == TRUE

\* Line 263.
PublishAllowed(s) == s.mqttConnected

\* Lines 264-267.
Publish(s) ==
    LET doc == {<<"temperature_celsius", s.temperatureCelsius>>}
        buf == SerializeJson(doc)
    IN  [s EXCEPT !.telemetryJson = {},
                  !.jsonBuffer = buf,
                  !.calls = Append(@, Call("sendTelemetryJson", buf[1][1], "",
                                           buf[1][2])),
                  !.published = @ \cup {s.tempId},
                  !.lastPub = [id |-> s.tempId, payload |-> buf,
                               again |-> s.tempId \in s.published],
                  !.iter = [@ EXCEPT !.published = TRUE]]

\* Lines 256-261: the flag is cleared and one sample is read.  sample is the
\* answer of pt100.temperature().
ReadSample(s, sample) ==
    [s EXCEPT !.sendInitialTelemetry = FALSE,
              !.temperatureCelsius = sample,
              !.sampleSeq = @ + 1,
              !.tempId = s.sampleSeq + 1,
              !.telClock = s.nowClock,
              !.calls = Append(@, Call("temperature", "", "",
                                       PT100_NOMINAL_RESISTANCE)),
              !.iter = [@ EXCEPT !.telFired = TRUE,
                                 !.sample = sample,
                                 !.flagAtTel = s.mqttConnected,
                                 !.telFirst = (s.sampleSeq = 0),
                                 !.telGapOk =
                                     TrueElapsedGe(s.telClock, s.nowClock,
                                                   U32(TELEMETRY_INTERVAL_MS))]]

\* Lines 263-268: the sample is published, or dropped.
PublishOrDrop(s) ==
    IF PublishAllowed(s) THEN Publish(s)
    ELSE [s EXCEPT !.dropped = @ \cup {s.tempId}]

\* A telemetry block that publishes what temperatureCelsius held before it
\* reads the sensor.
TelemetryAction_Stale(s, n, sample) ==
    [ReadSample(PublishOrDrop(s), sample) EXCEPT !.lastTelemetryMillis = n]

\* A telemetry block that forgets line 256.
TelemetryAction_KeepsSeed(s, n, sample) ==
    [PublishOrDrop(ReadSample(s, sample))
        EXCEPT !.lastTelemetryMillis = n,
               !.sendInitialTelemetry = s.sendInitialTelemetry]

\* Lines 256-270.
TelemetryAction(s, n, sample) ==
    [PublishOrDrop(ReadSample(s, sample)) EXCEPT !.lastTelemetryMillis = n]

\* A poll that takes the flag from what the Session Client reports.
Poll_SyncsFlag(s) ==
    [s EXCEPT !.mqttConnected = s.sessionUp,
              !.calls = Append(@, Call("loop", "", "", 0)),
              !.iter = [@ EXCEPT !.polled = TRUE]]

\* Line 273.
Poll(s) ==
    [s EXCEPT !.calls = Append(@, Call("loop", "", "", 0)),
              !.iter = [@ EXCEPT !.polled = TRUE]]

\* What the two timers say at line 222 and line 255, beside what true time
\* says: the time since each mark was set, the marks being the now of the
\* last telemetry action and of the last check that reached line 252 (boot,
\* before the first).
Timers(s, n) ==
    [s EXCEPT !.iter = [@ EXCEPT
        !.telTimer = TimerDue(n, s.lastTelemetryMillis, TELEMETRY_INTERVAL_MS),
        !.telTrue = TrueElapsedGe(s.telClock, s.nowClock,
                                  U32(TELEMETRY_INTERVAL_MS)),
        !.telSpan = TrueSpanBelowRange(s.telClock, s.nowClock),
        !.connTrue = TrueElapsedGe(s.iter.okClock, s.nowClock,
                                   U32(CONNECTION_CHECK_MS)),
        !.connSpan = TrueSpanBelowRange(s.iter.okClock, s.nowClock)]]

\* Lines 222-273 from the connectivity check on: fired says whether the
\* connectivity timer was due at line 222.
LoopBody(s, n, fired, ok, sample) ==
    LET c0 == IF fired THEN ConnectivityCheck(Timers(s, n), n, ok)
              ELSE Timers(s, n)
        c  == [c0 EXCEPT !.iter = [@ EXCEPT !.chkMqtt = c0.mqttConnected,
                                            !.chkLastTel = c0.lastTelemetryMillis,
                                            !.chkSendInit = c0.sendInitialTelemetry,
                                            !.chkLastConn = c0.lastConnectionCheckMillis,
                                            !.chkSession = c0.sessionUp]]
    IN  IF c.iter.returned
        THEN c
        ELSE Poll(IF TelemetryFires(c, n) THEN TelemetryAction(c, n, sample)
                  ELSE c)

\* The iteration record at line 220-222, before anything has been done.  The
\* note of the last check that reached line 252 (okSeen, okN, okClock) is
\* carried over from the iteration before.
IterStart(n) ==
    [NoIter EXCEPT !.n = n,
                   !.connDue = TimerDue(n, lastConnectionCheckMillis,
                                        CONNECTION_CHECK_MS),
                   !.telDue = TimerDue(n, lastTelemetryMillis,
                                       TELEMETRY_INTERVAL_MS)
                              \/ sendInitialTelemetry,
                   !.preMqtt = mqttConnected,
                   !.preLastTel = lastTelemetryMillis,
                   !.preSendInit = sendInitialTelemetry,
                   !.preLastConn = lastConnectionCheckMillis,
                   !.preSubs = nSubscribe,
                   !.okSeen = iter.okSeen,
                   !.okN = iter.okN,
                   !.okClock = iter.okClock]

\* The state written back at the end of an iteration.
Finish(r) ==
    /\ mqttConnected' = r.mqttConnected
    /\ lastConnectionCheckMillis' = r.lastConnectionCheckMillis
    /\ lastTelemetryMillis' = r.lastTelemetryMillis
    /\ sendInitialTelemetry' = r.sendInitialTelemetry
    /\ temperatureCelsius' = r.temperatureCelsius
    /\ telemetryJson' = r.telemetryJson
    /\ jsonBuffer' = r.jsonBuffer
    /\ sessionUp' = r.sessionUp
    /\ otaArmed' = r.otaArmed
    /\ calls' = r.calls
    /\ tempId' = r.tempId
    /\ sampleSeq' = r.sampleSeq
    /\ published' = r.published
    /\ lastPub' = r.lastPub
    /\ dropped' = r.dropped
    /\ nConnectOk' = r.nConnectOk
    /\ nSubscribe' = r.nSubscribe
    /\ failStreak' = r.failStreak
    /\ streakSubs' = r.streakSubs
    /\ telClock' = r.telClock
    /\ iter' = r.iter


(***************************************************************************)
(* Initial state: the globals as their initialisers leave them, the        *)
(* device just powered up or restarted.                                    *)
(***************************************************************************)
Init ==
    /\ pc = "setup"
    /\ caller = "setup"
    /\ now = U32(0)
    /\ firmwareTitle = ""
    /\ lastTelemetryMillis = U32(0)
    /\ lastConnectionCheckMillis = U32(0)
    /\ sendInitialTelemetry = TRUE
    /\ temperatureCelsius = 0
    /\ mqttConnected = FALSE
    /\ telemetryJson = {}
    /\ jsonBuffer = << >>
    /\ counter = 0
    /\ clock = Time(0, U32(0))
    /\ wifiUp = FALSE
    /\ sessionUp = FALSE
    /\ otaArmed = FALSE
    /\ ticks = 0
    /\ waits = 0
    /\ drops = 0
    /\ calls = << >>
    /\ iter = NoIter
    /\ tempId = 0
    /\ sampleSeq = 0
    /\ published = {}
    /\ lastPub = NoPub
    /\ dropped = {}
    /\ nConnectOk = 0
    /\ nSubscribe = 0
    /\ failStreak = 0
    /\ streakSubs = 0
    /\ nowClock = Time(0, U32(0))
    /\ telClock = Time(0, U32(0))
    /\ otaCalls = 0
    /\ otaEmits = 0
    /\ otaEmitAt = {}
    /\ otaPercent = 0
    /\ otaFailed = FALSE
    /\ otaDone = NoOtaDone

\* esp_restart(): the device reboots, every global is re-initialised, the
\* link and the session are gone, millis() restarts from 0.
esp_restart ==
    /\ pc' = "setup"
    /\ caller' = "setup"
    /\ now' = U32(0)
    /\ firmwareTitle' = ""
    /\ lastTelemetryMillis' = U32(0)
    /\ lastConnectionCheckMillis' = U32(0)
    /\ sendInitialTelemetry' = TRUE
    /\ temperatureCelsius' = 0
    /\ mqttConnected' = FALSE
    /\ telemetryJson' = {}
    /\ jsonBuffer' = << >>
    /\ counter' = 0
    /\ clock' = Time(0, U32(0))
    /\ wifiUp' = FALSE
    /\ sessionUp' = FALSE
    /\ otaArmed' = FALSE
    /\ ticks' = 0
    /\ waits' = 0
    /\ drops' = 0
    /\ calls' = << >>
    /\ iter' = NoIter
    /\ tempId' = 0
    /\ sampleSeq' = 0
    /\ published' = {}
    /\ lastPub' = NoPub
    /\ dropped' = {}
    /\ nConnectOk' = 0
    /\ nSubscribe' = 0
    /\ failStreak' = 0
    /\ streakSubs' = 0
    /\ nowClock' = Time(0, U32(0))
    /\ telClock' = Time(0, U32(0))
    /\ otaCalls' = 0
    /\ otaEmits' = 0
    /\ otaEmitAt' = {}
    /\ otaPercent' = 0
    /\ otaFailed' = FALSE

(***************************************************************************)
(* setup(), lines 193-213, up to the blocking loop of connectWiFi().       *)
(***************************************************************************)
Setup ==
    /\ pc = "setup"
    /\ clock' = Advance(clock, U32(SETUP_DELAY_MS))
    /\ firmwareTitle' = IF DEVICE_TYPE = DEVICE_TYPE_COLD_STORAGE
                        THEN "PT100_Cold_Storage" ELSE "PT100_Generic"
    /\ pc' = "connectWiFi"
    /\ caller' = "setup"
    /\ UNCHANGED <<now, lastTelemetryMillis, lastConnectionCheckMillis,
                   sendInitialTelemetry, temperatureCelsius, mqttConnected,
                   telemetryJson, jsonBuffer, counter>>
    /\ UNCHANGED <<wifiUp, sessionUp, otaArmed>>
    /\ UNCHANGED histVars
    /\ otaDone' = NoOtaDone
    /\ UNCHANGED <<otaCalls, otaEmits, otaEmitAt, otaPercent, otaFailed>>

(***************************************************************************)
(* connectWiFi(), lines 150-153: one round of the blocking loop.           *)
(***************************************************************************)
ConnectWiFiWait ==
    /\ pc = "connectWiFi"
    /\ ~wifiUp
    /\ Steps < MaxSteps
    /\ waits' = waits + 1
    /\ clock' = Advance(clock, U32(WIFI_RETRY_DELAY_MS))
    /\ UNCHANGED progVars
    /\ UNCHANGED <<wifiUp, sessionUp, otaArmed>>
    /\ UNCHANGED <<ticks, drops, calls, iter, tempId, sampleSeq, published,
                   lastPub, dropped, nConnectOk, nSubscribe, failStreak,
                   streakSubs, nowClock, telClock>>
    /\ UNCHANGED otaHist

\* connectWiFi() returns to setup(), lines 155 and 212-213: the loop starts.
ConnectWiFiDoneSetup ==
    /\ pc = "connectWiFi"
    /\ caller = "setup"
    /\ wifiUp
    /\ pc' = "loop"
    /\ UNCHANGED <<caller, now, firmwareTitle, lastTelemetryMillis,
                   lastConnectionCheckMillis, sendInitialTelemetry,
                   temperatureCelsius, mqttConnected, telemetryJson,
                   jsonBuffer, counter>>
    /\ UNCHANGED envVars
    /\ UNCHANGED histVars
    /\ UNCHANGED otaHist

\* connectWiFi() returns to loop() (ensureWiFiConnection, line 164): the
\* iteration goes on from line 226 with the now it read at line 220.
ConnectWiFiDoneLoop ==
    /\ pc = "connectWiFi"
    /\ caller = "loop"
    /\ wifiUp
    /\ pc' = "loop"
    /\ \E ok \in BOOLEAN, sample \in Samples :
           Finish(LoopBody([LoopState EXCEPT
                               !.iter = [@ EXCEPT !.linkSeen = wifiUp]],
                           now, TRUE, ok, sample))
    /\ UNCHANGED <<caller, now, firmwareTitle, counter>>
    /\ UNCHANGED <<clock, wifiUp>>
    /\ UNCHANGED <<ticks, waits, drops, nowClock>>
    /\ UNCHANGED otaHist

\* An ensureWiFiConnection() that returns without reconnecting.
MustBlock_Never(due, up) == FALSE

\* Lines 222-224 and 159-163: the connectivity timer is due and WiFi.status()
\* is not WL_CONNECTED, so ensureWiFiConnection() calls connectWiFi().
MustBlock(due, up) == due /\ ~up

(***************************************************************************)
(* loop(), lines 219-274.  d is the time that has passed since the clock   *)
(* last moved (the previous iteration, or a delay of connectWiFi).         *)
(***************************************************************************)
Loop ==
    /\ pc = "loop"
    /\ Steps < MaxSteps
    /\ \E d \in Deltas :
         LET n == Millis(Advance(clock, d))
             due == TimerDue(n, lastConnectionCheckMillis, CONNECTION_CHECK_MS)
         IN  /\ clock' = Advance(clock, d)
             /\ now' = n
             /\ nowClock' = Advance(clock, d)
             /\ ticks' = ticks + 1
             /\ IF MustBlock(due, wifiUp)
                THEN \* ensureWiFiConnection() calls connectWiFi(), which blocks
                     /\ pc' = "connectWiFi"
                     /\ caller' = "loop"
                     /\ calls' = << Call("WiFi.begin", "", "", 0) >>
                     /\ iter' = [IterStart(n) EXCEPT !.blocked = TRUE]
                     /\ UNCHANGED <<lastTelemetryMillis,
                                    lastConnectionCheckMillis,
                                    sendInitialTelemetry, temperatureCelsius,
                                    mqttConnected, telemetryJson, jsonBuffer>>
                     /\ UNCHANGED <<sessionUp, otaArmed>>
                     /\ UNCHANGED <<tempId, sampleSeq, published, lastPub,
                                    dropped, nConnectOk, nSubscribe,
                                    failStreak, streakSubs, telClock>>
                ELSE /\ \E ok \in BOOLEAN, sample \in Samples :
                          Finish(LoopBody([LoopState EXCEPT
                                              !.calls = << >>,
                                              !.nowClock = Advance(clock, d),
                                              !.iter = [IterStart(n) EXCEPT
                                                  !.linkSeen = due /\ wifiUp]],
                                          n, due, ok, sample))
                     /\ UNCHANGED <<pc, caller>>
    /\ UNCHANGED <<firmwareTitle, counter, wifiUp, waits, drops>>
    /\ UNCHANGED otaHist

(***************************************************************************)
(* OTA callbacks, lines 171-187.  The Session Client calls them from       *)
(* thingsboard.loop() (line 273) once an update subscription is armed.     *)
(***************************************************************************)
\* The callbacks run inside the poll that ended the last iteration.
InPoll == pc = "loop" /\ iter.polled /\ otaArmed /\ sessionUp

\* A throttle with > for >=.
ProgressFires_OffByOne(c) == c + 1 > OTA_PROGRESS_EVERY

\* Line 182: ++counter >= 10.
ProgressFires(c) == c + 1 >= OTA_PROGRESS_EVERY

\* Line 183: percent = (chunk * 100.0f) / total.
Percent(chunk, total) == (chunk * 100) \div total

\* onOtaProgress, lines 180-187.
OnOtaProgress(limit) ==
    /\ InPoll
    /\ otaCalls < limit
    /\ otaCalls' = otaCalls + 1
    /\ IF ProgressFires(counter)
       THEN /\ counter' = 0
            /\ otaEmits' = otaEmits + 1
            /\ otaEmitAt' = otaEmitAt \cup {otaCalls + 1}
            /\ \E chunk \in OtaChunks :
                   otaPercent' = Percent(chunk, OtaTotal)
       ELSE /\ counter' = counter + 1
            /\ UNCHANGED <<otaEmits, otaEmitAt, otaPercent>>
    /\ UNCHANGED <<otaFailed, otaDone>>
    /\ UNCHANGED <<pc, caller, now, firmwareTitle, lastTelemetryMillis,
                   lastConnectionCheckMillis, sendInitialTelemetry,
                   temperatureCelsius, mqttConnected, telemetryJson,
                   jsonBuffer>>
    /\ UNCHANGED envVars
    /\ UNCHANGED histVars

\* A completion callback that restarts whatever the outcome.
Restarts_Always(success) == TRUE

\* Line 172: if (success).
Restarts(success) == success

\* onOtaCompleted, lines 171-178.
OnOtaCompleted ==
    /\ InPoll
    /\ \E success \in BOOLEAN :
         /\ otaDone' = [called |-> TRUE, success |-> success,
                        failedBefore |-> otaFailed]
         /\ IF Restarts(success)
            THEN esp_restart
            ELSE /\ ~otaFailed
                 /\ otaFailed' = TRUE
                 /\ UNCHANGED <<otaCalls, otaEmits, otaEmitAt, otaPercent>>
                 /\ UNCHANGED progVars
                 /\ UNCHANGED envVars
                 /\ UNCHANGED histVars

(***************************************************************************)
(* Environment: the link and the session come and go on their own.         *)
(***************************************************************************)
\* WiFi.status() becomes WL_CONNECTED (after WiFi.begin, line 148).
LinkUp ==
    /\ pc # "setup"
    /\ ~wifiUp
    /\ wifiUp' = TRUE
    /\ UNCHANGED progVars
    /\ UNCHANGED <<clock, sessionUp, otaArmed>>
    /\ UNCHANGED histVars
    /\ UNCHANGED otaHist

\* WiFi.status() stops being WL_CONNECTED.
LinkDown ==
    /\ pc = "loop"
    /\ wifiUp
    /\ Steps < MaxSteps
    /\ wifiUp' = FALSE
    /\ drops' = drops + 1
    /\ UNCHANGED progVars
    /\ UNCHANGED <<clock, sessionUp, otaArmed>>
    /\ UNCHANGED <<ticks, waits, calls, iter, tempId, sampleSeq, published,
                   lastPub, dropped, nConnectOk, nSubscribe, failStreak,
                   streakSubs, nowClock, telClock>>
    /\ UNCHANGED otaHist

\* thingsboard.connected() turns false: the broker or the link dropped the
\* session.
SessionDrop ==
    /\ pc = "loop"
    /\ sessionUp
    /\ Steps < MaxSteps
    /\ sessionUp' = FALSE
    /\ drops' = drops + 1
    /\ UNCHANGED progVars
    /\ UNCHANGED <<clock, wifiUp, otaArmed>>
    /\ UNCHANGED <<ticks, waits, calls, iter, tempId, sampleSeq, published,
                   lastPub, dropped, nConnectOk, nSubscribe, failStreak,
                   streakSubs, nowClock, telClock>>
    /\ UNCHANGED otaHist

Next ==
    \/ Setup
    \/ ConnectWiFiWait
    \/ ConnectWiFiDoneSetup
    \/ ConnectWiFiDoneLoop
    \/ Loop
    \/ OnOtaProgress(MaxLoopOtaCalls)
    \/ OnOtaCompleted
    \/ LinkUp
    \/ LinkDown
    \/ SessionDrop

Spec == Init /\ [][Next]_vars

(***************************************************************************)
(* The callbacks on their own: the device boots, takes its first loop()    *)
(* iteration, and from then on only the Session Client's callbacks run.    *)
(* counter is touched by nothing but onOtaProgress and a restart, so the   *)
(* later iterations of loop() add nothing to what the callbacks do.        *)
(***************************************************************************)
FirstLoop == ticks = 0 /\ Loop

NextOta ==
    \/ Setup
    \/ LinkUp
    \/ ConnectWiFiDoneSetup
    \/ FirstLoop
    \/ OnOtaProgress(MaxOtaCalls)
    \/ OnOtaCompleted

SpecOta == Init /\ [][NextOta]_vars

(***************************************************************************)
(* The loop running for ever.  Nothing bounds the number of iterations, of *)
(* delays or of drops; to keep the states finite the history that only     *)
(* counts is left alone (ticks, samples, publishes) or stops growing at    *)
(* LiveCap (drops, waits, failed attempts), and millis() is read on a grid *)
(* of 2^30 ms: between two readings either no millisecond has passed or a  *)
(* quarter of the 32-bit range has, delays of connectWiFi() included.      *)
(***************************************************************************)
QuarterStep == << Limb \div 4, 0 >>
LiveDeltas == {U32(0), QuarterStep}

\* millis() after d more milliseconds, the wrap count dropped.
LiveAdvance(c, d) == Time(0, AddU32(c.ms, d))

\* A count that stops growing at LiveCap.
Sat(x) == IF x > LiveCap THEN LiveCap ELSE x

\* The state written back at the end of an iteration.
LiveFinish(r) ==
    /\ mqttConnected' = r.mqttConnected
    /\ lastConnectionCheckMillis' = r.lastConnectionCheckMillis
    /\ lastTelemetryMillis' = r.lastTelemetryMillis
    /\ sendInitialTelemetry' = r.sendInitialTelemetry
    /\ temperatureCelsius' = r.temperatureCelsius
    /\ telemetryJson' = r.telemetryJson
    /\ jsonBuffer' = r.jsonBuffer
    /\ sessionUp' = r.sessionUp
    /\ otaArmed' = r.otaArmed
    /\ calls' = r.calls
    /\ iter' = r.iter
    /\ failStreak' = Sat(r.failStreak)
    /\ UNCHANGED <<tempId, sampleSeq, published, lastPub, dropped,
                   nConnectOk, nSubscribe, streakSubs, telClock>>

\* loop(), lines 219-274, d milliseconds after millis() was last read.
LiveLoop(d) ==
    /\ pc = "loop"
    /\ LET n == Millis(LiveAdvance(clock, d))
           due == TimerDue(n, lastConnectionCheckMillis, CONNECTION_CHECK_MS)
       IN  /\ clock' = LiveAdvance(clock, d)
           /\ now' = n
           /\ IF MustBlock(due, wifiUp)
              THEN /\ pc' = "connectWiFi"
                   /\ caller' = "loop"
                   /\ calls' = << Call("WiFi.begin", "", "", 0) >>
                   /\ iter' = [IterStart(n) EXCEPT !.blocked = TRUE]
                   /\ UNCHANGED <<lastTelemetryMillis,
                                  lastConnectionCheckMillis,
                                  sendInitialTelemetry, temperatureCelsius,
                                  mqttConnected, telemetryJson, jsonBuffer>>
                   /\ UNCHANGED <<sessionUp, otaArmed>>
                   /\ UNCHANGED <<tempId, sampleSeq, published, lastPub,
                                  dropped, nConnectOk, nSubscribe,
                                  failStreak, streakSubs, telClock>>
              ELSE /\ \E ok \in BOOLEAN, sample \in Samples :
                        LiveFinish(LoopBody([LoopState EXCEPT
                                               !.calls = << >>,
                                               !.iter = [IterStart(n) EXCEPT
                                                   !.linkSeen = due /\ wifiUp]],
                                            n, due, ok, sample))
                   /\ UNCHANGED <<pc, caller>>
    /\ UNCHANGED <<firmwareTitle, counter, wifiUp, ticks, waits, drops,
                   nowClock>>
    /\ UNCHANGED otaHist

\* connectWiFi(), lines 150-153: one round of the blocking loop.
LiveConnectWiFiWait ==
    /\ pc = "connectWiFi"
    /\ ~wifiUp
    /\ waits' = Sat(waits + 1)
    /\ UNCHANGED progVars
    /\ UNCHANGED envVars
    /\ UNCHANGED <<ticks, drops, calls, iter, tempId, sampleSeq, published,
                   lastPub, dropped, nConnectOk, nSubscribe, failStreak,
                   streakSubs, nowClock, telClock>>
    /\ UNCHANGED otaHist

\* connectWiFi() returns to loop() (line 164).
LiveConnectWiFiDoneLoop ==
    /\ pc = "connectWiFi"
    /\ caller = "loop"
    /\ wifiUp
    /\ pc' = "loop"
    /\ \E ok \in BOOLEAN, sample \in Samples :
           LiveFinish(LoopBody([LoopState EXCEPT
                                   !.iter = [@ EXCEPT !.linkSeen = wifiUp]],
                               now, TRUE, ok, sample))
    /\ UNCHANGED <<caller, now, firmwareTitle, counter>>
    /\ UNCHANGED <<clock, wifiUp>>
    /\ UNCHANGED <<ticks, waits, drops, nowClock>>
    /\ UNCHANGED otaHist

\* WiFi.status() stops being WL_CONNECTED.
LiveLinkDown ==
    /\ pc = "loop"
    /\ wifiUp
    /\ wifiUp' = FALSE
    /\ drops' = Sat(drops + 1)
    /\ UNCHANGED progVars
    /\ UNCHANGED <<clock, sessionUp, otaArmed>>
    /\ UNCHANGED <<ticks, waits, calls, iter, tempId, sampleSeq, published,
                   lastPub, dropped, nConnectOk, nSubscribe, failStreak,
                   streakSubs, nowClock, telClock>>
    /\ UNCHANGED otaHist

\* thingsboard.connected() turns false.
LiveSessionDrop ==
    /\ pc = "loop"
    /\ sessionUp
    /\ sessionUp' = FALSE
    /\ drops' = Sat(drops + 1)
    /\ UNCHANGED progVars
    /\ UNCHANGED <<clock, wifiUp, otaArmed>>
    /\ UNCHANGED <<ticks, waits, calls, iter, tempId, sampleSeq, published,
                   lastPub, dropped, nConnectOk, nSubscribe, failStreak,
                   streakSubs, nowClock, telClock>>
    /\ UNCHANGED otaHist

NextLive ==
    \/ Setup
    \/ LiveConnectWiFiWait
    \/ ConnectWiFiDoneSetup
    \/ LiveConnectWiFiDoneLoop
    \/ \E d \in LiveDeltas : LiveLoop(d)
    \/ OnOtaCompleted
    \/ LinkUp
    \/ LiveLinkDown
    \/ LiveSessionDrop

\* The steps the fairness conditions are about, each written on the guard
\* of its action and on the one variable the step is recognised by.
\*
\* An iteration that reads millis() later than the one before it did: a
\* step LiveLoop(QuarterStep), enabled whenever pc = "loop".
LiveTick ==
    /\ pc = "loop"
    /\ clock' = LiveAdvance(clock, QuarterStep)

\* connectWiFi() returns to loop(): a step LiveConnectWiFiDoneLoop.
LiveReturn ==
    /\ pc = "connectWiFi"
    /\ caller = "loop"
    /\ wifiUp
    /\ pc' = "loop"

\* An iteration in which thingsboard.connect() is called (lines 222-229: the
\* timer is due, the link is up, the session reports disconnected) and
\* succeeds: the one kind of step that turns sessionUp true.
LiveConnects ==
    /\ ~sessionUp
    /\ \/ /\ pc = "connectWiFi" /\ caller = "loop" /\ wifiUp
          /\ ConnectivityCheck(LoopState, now, TRUE).iter.connectOk
       \/ /\ pc = "loop"
          /\ \E d \in LiveDeltas :
                LET n == Millis(LiveAdvance(clock, d))
                    due == TimerDue(n, lastConnectionCheckMillis,
                                    CONNECTION_CHECK_MS)
                IN  /\ due
                    /\ ~MustBlock(due, wifiUp)
                    /\ ConnectivityCheck(LoopState, n, TRUE).iter.connectOk
    /\ sessionUp' = TRUE

\* The Arduino core calls setup() once and loop() for ever, and time passes;
\* the link comes up when it is waited for; thingsboard.connect() does not
\* fail for ever.
LiveFairness ==
    /\ WF_vars(Setup)
    /\ WF_vars(ConnectWiFiDoneSetup)
    /\ WF_pc(LiveReturn)
    /\ WF_clock(LiveTick)
    /\ WF_vars(LinkUp)
    /\ SF_sessionUp(LiveConnects)

SpecLive == Init /\ [][NextLive]_vars /\ LiveFairness


(***************************************************************************)
(* Properties                                                              *)
(***************************************************************************)
\* The last iteration called op; it called op exactly once.
Called(op) == \E i \in 1 .. Len(calls) : calls[i].op = op
CalledOnce(op) ==
    \E i \in 1 .. Len(calls) :
        /\ calls[i].op = op
        /\ \A j \in 1 .. Len(calls) : calls[j].op = op => j = i

\* The last iteration has run to its end (it is not blocked in connectWiFi).
IterDone == pc = "loop" /\ ticks > 0

\* now - last >= period, written out on the limbs.
Due(n, last, period) == GeU32(SubU32(n, last), U32(period))

\* C1: whenever the connectivity check fires in an iteration,
\* lastConnectionCheckMillis is that iteration's now at the end of the
\* iteration, whether the session-establish call succeeded or failed.
C1_CheckAlwaysResetsTimer ==
    (IterDone /\ iter.connFired) => lastConnectionCheckMillis = iter.n

\* C2: sendTelemetryJson is called only where mqttConnected is true.
C2_PublishOnlyWhenConnected ==
    (iter.published \/ Called("sendTelemetryJson"))
        => (iter.flagAtTel /\ mqttConnected)

C2_Witness == IterDone /\ iter.published /\ CalledOnce("sendTelemetryJson")

\* C3: a publish carries exactly the sample read in the same iteration, fault
\* values included; a sample is published at most once; a sample read while
\* mqttConnected was false is not published, in that iteration or later.
C3_BestEffortNoReplay ==
    /\ Called("sendTelemetryJson") => CalledOnce("sendTelemetryJson")
    /\ iter.published <=> CalledOnce("sendTelemetryJson")
    /\ iter.published =>
          /\ iter.telFired
          /\ lastPub.id = sampleSeq
          /\ ~lastPub.again
          /\ lastPub.payload = << <<"temperature_celsius", iter.sample>> >>
          /\ jsonBuffer = lastPub.payload
          /\ \E i \in 1 .. Len(calls) :
                /\ calls[i].op = "sendTelemetryJson"
                /\ calls[i].num = iter.sample
                /\ i > 1
                /\ calls[i - 1].op = "temperature"
    /\ (iter.telFired /\ ~iter.flagAtTel) =>
          (~iter.published /\ sampleSeq \in dropped)
    /\ dropped \cap published = {}
    /\ published \cup dropped = 1 .. sampleSeq

\* A sample was dropped, the session has been established since, and the
\* iteration that established it published nothing.
C3_Witness ==
    IterDone /\ dropped # {} /\ iter.connectOk /\ mqttConnected
             /\ ~iter.published

\* C4: the telemetry action runs in an iteration if and only if it is due at
\* that iteration (period elapsed, or the immediate-send flag set), whatever
\* the connectivity check did in the same iteration.
C4_TelemetryRunsIffDue ==
    IterDone =>
        (iter.telFired <=>
            (Due(iter.n, iter.preLastTel, TELEMETRY_INTERVAL_MS)
                \/ iter.preSendInit))

\* C5: the immediate-send flag is set until the first telemetry action,
\* cleared by it and not set again before a restart; every later telemetry
\* action is at least one telemetry period of true time after the one before.
C5_SeedFiresOnce ==
    /\ (sampleSeq = 0) <=> sendInitialTelemetry
    /\ iter.telFired => (iter.telFirst <=> iter.preSendInit)
    /\ (iter.telFired /\ ~iter.telFirst) => iter.telGapOk

\* A second telemetry action has happened, one period after the first.
C5_Witness ==
    IterDone /\ iter.telFired /\ sampleSeq = 2 /\ ~iter.telFirst

\* C6: on the first iteration after boot the connectivity check fires and the
\* first telemetry publish happens, whatever thingsboard.connect() answers.
C6_FirstIterationFiresBoth ==
    (IterDone /\ ticks = 1) => (iter.connFired /\ iter.published)

\* What the connectivity check leaves behind, the history set aside.
Core(s) == << s.mqttConnected, s.lastConnectionCheckMillis,
              s.lastTelemetryMillis, s.sendInitialTelemetry,
              s.temperatureCelsius, s.telemetryJson, s.jsonBuffer,
              s.sessionUp, s.otaArmed, s.nConnectOk, s.nSubscribe >>

\* C7: a connectivity check that finds the session connected calls no
\* connect, sends no firmware info or state, arms no subscription and changes
\* nothing but the connectivity timer's mark; two such checks in a row leave
\* the state one check leaves.
C7_ConnectedCheckIdempotent ==
    /\ (iter.connFired /\ iter.query = "up") =>
          /\ ~iter.connectCalled
          /\ ~Called("connect")
          /\ ~Called("Firmware_Send_Info")
          /\ ~Called("Firmware_Send_State")
          /\ ~Called("Subscribe_Firmware_Update")
          /\ nSubscribe = iter.preSubs
          /\ iter.chkMqtt = iter.preMqtt
          /\ iter.chkLastTel = iter.preLastTel
          /\ iter.chkSendInit = iter.preSendInit
          /\ iter.chkLastConn = iter.n
    /\ (pc = "loop" /\ sessionUp) =>
          \A d1 \in Deltas, d2 \in Deltas :
              LET n1 == AddU32(now, d1)
                  n2 == AddU32(n1, d2)
                  once == ConnectivityCheck(LoopState, n2, FALSE)
                  twice == ConnectivityCheck(once, n2, TRUE)
                  later == ConnectivityCheck(
                               ConnectivityCheck(LoopState, n1, TRUE),
                               n2, FALSE)
              IN  /\ Core(twice) = Core(once)
                  /\ Core(later) = Core(once)
                  /\ Core(once) = Core([LoopState EXCEPT
                                          !.lastConnectionCheckMillis = n2])

C7_Witness ==
    IterDone /\ iter.connFired /\ iter.query = "up" /\ nSubscribe = 1

\* C8: a check whose session-establish fails leaves mqttConnected false and
\* sends no firmware info, no firmware state and no subscription; the check
\* that succeeds after k failed ones sets mqttConnected and is the one
\* Subscribe_Firmware_Update of the whole sequence.
C8_RetryThenArmOnce ==
    /\ (iter.connectCalled /\ ~iter.connectOk) =>
          /\ ~mqttConnected
          /\ iter.returned
          /\ ~Called("Firmware_Send_Info")
          /\ ~Called("Firmware_Send_State")
          /\ ~Called("Subscribe_Firmware_Update")
          /\ nSubscribe = iter.preSubs
          /\ streakSubs = 0
          /\ failStreak > 0
    /\ iter.connectOk =>
          /\ iter.connectCalled
          /\ mqttConnected
          /\ iter.chkMqtt
          /\ CalledOnce("Subscribe_Firmware_Update")
          /\ nSubscribe = iter.preSubs + 1
          /\ streakSubs = 1
    /\ (~iter.connectCalled /\ failStreak > 0) => streakSubs = 0

\* Two failed checks in a row, then a successful one.
C8_Witness ==
    IterDone /\ iter.connectOk /\ iter.streak >= 2 /\ streakSubs = 1

\* C9: in the Connected state with the immediate-send flag cleared, an
\* iteration publishes exactly when now - lastTelemetryMillis has reached the
\* telemetry period, once, and restarts the period from its now.
C9_OnePublishPerPeriod ==
    (IterDone /\ iter.preMqtt /\ iter.query # "down" /\ ~iter.preSendInit) =>
        /\ iter.published <=>
              Due(iter.n, iter.preLastTel, TELEMETRY_INTERVAL_MS)
        /\ iter.published <=> CalledOnce("sendTelemetryJson")
        /\ ~iter.published <=> ~Called("sendTelemetryJson")
        /\ iter.published => lastTelemetryMillis = iter.n
        /\ ~iter.published => lastTelemetryMillis = iter.preLastTel

\* The period ran out exactly (a long and a short step after the last
\* publish) and the iteration published.
C9_Witness ==
    /\ IterDone /\ iter.preMqtt /\ iter.query # "down" /\ ~iter.preSendInit
    /\ iter.published
    /\ SubU32(iter.n, iter.preLastTel) = U32(TELEMETRY_INTERVAL_MS)

\* C10: after N calls of onOtaProgress since boot the attribute has been sent
\* on the calls 10, 20, 30, ... and no others, N \div 10 times; the counter
\* is back at 0 after each send and within 0 .. 9 between calls.
C10_EveryTenthCall ==
    /\ otaEmitAt = {k \in 1 .. otaCalls : k % 10 = 0}
    /\ otaEmits = otaCalls \div 10
    /\ counter \in 0 .. 9
    /\ counter = otaCalls % 10

C10_Witness == otaCalls = 30 /\ otaEmits = 3 /\ counter = 0

\* The device has just restarted: the globals hold their initialisers, the
\* link and the session are gone and nothing has run since.
JustRestarted ==
    /\ pc = "setup"
    /\ lastTelemetryMillis = U32(0)
    /\ lastConnectionCheckMillis = U32(0)
    /\ sendInitialTelemetry
    /\ ~mqttConnected
    /\ counter = 0
    /\ ~wifiUp /\ ~sessionUp /\ ~otaArmed
    /\ ticks = 0 /\ calls = << >> /\ iter = NoIter
    /\ sampleSeq = 0 /\ nConnectOk = 0 /\ nSubscribe = 0

\* C11: onOtaCompleted restarts the device if and only if it is called with
\* success = true.  After a success nothing of the loop runs before the boot
\* sequence does (the only step out of the restarted state is setup(), with
\* no iteration, no call and no sample counted).  After a failure the report
\* is made, there is no restart, and mqttConnected, both timer marks and the
\* firmware title are what they were; the loop can go on.
C11_RestartIffSuccess ==
    [][ /\ (otaDone' # otaDone /\ otaDone'.called) =>
              /\ pc = "loop"
              /\ otaDone'.success <=> (pc' = "setup")
              /\ otaDone'.success => JustRestarted'
              /\ ~otaDone'.success =>
                    /\ otaFailed'
                    /\ pc' = "loop"
                    /\ UNCHANGED <<mqttConnected, lastTelemetryMillis,
                                   lastConnectionCheckMillis, firmwareTitle,
                                   sendInitialTelemetry, ticks, calls,
                                   sessionUp, otaArmed>>
        /\ (pc = "loop" /\ pc' = "setup") =>
              (otaDone' # otaDone /\ otaDone'.success)
        /\ (otaDone.called /\ otaDone.success) =>
              /\ JustRestarted
              /\ pc' = "connectWiFi"
              /\ ~otaDone'.called
              /\ UNCHANGED <<ticks, calls, iter, sampleSeq, nConnectOk,
                             nSubscribe, mqttConnected, lastTelemetryMillis,
                             lastConnectionCheckMillis>>
        /\ (otaDone.called /\ ~otaDone.success /\ pc = "loop") =>
              (otaFailed /\ ticks > 0)
      ]_vars

\* The callback reported a failure, the loop went on, and a later call with
\* success = true restarted the device.
C11_Witness ==
    otaDone.called /\ otaDone.success /\ otaDone.failedBefore /\ JustRestarted

\* C12: mqttConnected and lastConnectionCheckMillis are written by the
\* connectivity check alone.  What the check of the last iteration left is
\* what they hold, after the telemetry action and the poll of that iteration
\* and after any callback since; an iteration whose connectivity timer was
\* not due, and one still blocked in connectWiFi, leaves them as it found
\* them.
C12_FlagWrittenOnlyByCheck ==
    (ticks > 0) =>
        /\ (pc = "loop") =>
              /\ mqttConnected = iter.chkMqtt
              /\ lastConnectionCheckMillis = iter.chkLastConn
        /\ (pc = "connectWiFi") =>
              /\ iter.blocked /\ ~iter.connFired
              /\ mqttConnected = iter.preMqtt
              /\ lastConnectionCheckMillis = iter.preLastConn
        /\ iter.connFired =>
              Due(iter.n, iter.preLastConn, CONNECTION_CHECK_MS)
        /\ ~iter.connFired =>
              /\ mqttConnected = iter.preMqtt
              /\ lastConnectionCheckMillis = iter.preLastConn
              /\ ~Called("connect") /\ ~Called("connected")

\* The session has dropped and the flag is still set: the iteration's
\* connectivity timer was not due, its telemetry action and its poll ran, and
\* the completion callback has reported a failure.
C12_Witness ==
    /\ IterDone /\ ~iter.connFired /\ iter.telFired /\ iter.published
    /\ iter.polled /\ ~sessionUp /\ mqttConnected /\ otaFailed

\* C13: every loop() iteration that has run to its end has called
\* thingsboard.loop() exactly once, as its last call, whatever the session
\* reported and whatever thingsboard.connect() answered.
C13_EveryTickPolls ==
    IterDone =>
        /\ iter.polled
        /\ CalledOnce("loop")
        /\ calls[Len(calls)].op = "loop"

\* The calls of the last iteration from position i on are the four of a
\* session establishment, in the order of lines 229-249.
EstablishedAt(i) ==
    /\ i + 3 <= Len(calls)
    /\ calls[i] = Call("connect", MQTT_SERVER, "", MQTT_PORT)
    /\ calls[i + 1] = Call("Firmware_Send_Info", firmwareTitle,
                           FIRMWARE_VERSION, 0)
    /\ calls[i + 2] = Call("Firmware_Send_State", "UPDATED", "", 0)
    /\ calls[i + 3].op = "Subscribe_Firmware_Update"

\* C14: a check whose thingsboard.connect() succeeds sets mqttConnected, then
\* calls Firmware_Send_Info(title, version), Firmware_Send_State("UPDATED")
\* and Subscribe_Firmware_Update, in this order and once each; a check without
\* a successful connect does none of the four; the subscription has been
\* armed as many times as connect has succeeded.
C14_ArmOncePerConnect ==
    /\ nSubscribe = nConnectOk
    /\ iter.connectOk =>
          /\ iter.flagAtInfo
          /\ iter.chkMqtt
          /\ \E i \in 1 .. Len(calls) : EstablishedAt(i)
          /\ CalledOnce("connect")
          /\ CalledOnce("Firmware_Send_Info")
          /\ CalledOnce("Firmware_Send_State")
          /\ CalledOnce("Subscribe_Firmware_Update")
          /\ nSubscribe = iter.preSubs + 1
    /\ ~iter.connectOk =>
          /\ ~Called("Firmware_Send_Info")
          /\ ~Called("Firmware_Send_State")
          /\ ~Called("Subscribe_Firmware_Update")
          /\ nSubscribe = iter.preSubs
          /\ (pc = "loop" /\ mqttConnected) => iter.preMqtt

\* The session has been established a second time, after a drop, and the
\* subscription armed a second time with it.
C14_Witness ==
    IterDone /\ iter.connectOk /\ nConnectOk = 2 /\ nSubscribe = 2

\* C15: thingsboard.connect() is called only in an iteration whose
\* ensureWiFiConnection() returned on WiFi.status() == WL_CONNECTED.  While
\* connectWiFi() blocks, the iteration has called WiFi.begin and nothing
\* else: no session query, no connect, no publish, no subscription; it leaves
\* the block only once the link is up.
C15_ConnectOnlyWithLinkUp ==
    /\ (iter.connFired \/ Called("connected") \/ Called("connect")) =>
          iter.linkSeen
    /\ (pc = "connectWiFi" /\ caller = "loop") =>
          /\ iter.blocked
          /\ ~iter.connFired /\ ~iter.connectCalled /\ ~iter.published
          /\ calls = << Call("WiFi.begin", "", "", 0) >>
          /\ nSubscribe = iter.preSubs
          /\ mqttConnected = iter.preMqtt
    /\ (pc = "connectWiFi" /\ caller = "setup") =>
          (calls = << >> /\ nConnectOk = 0 /\ nSubscribe = 0)
    /\ (IterDone /\ iter.blocked) => (iter.linkSeen /\ iter.connFired)

\* The check found the link down and blocked for at least one delay, then
\* the link came up and the session was established in the same iteration.
C15_Witness ==
    /\ IterDone /\ iter.blocked /\ iter.connectOk /\ iter.published
    /\ clock # nowClock

\* The session is established, the flag says so and the update subscription
\* is armed.
Connected == mqttConnected /\ sessionUp /\ otaArmed

\* A connectivity check can be the next thing to happen: loop() is about to
\* be entered and there is a reading of millis() at which the timer is due.
CheckPossible ==
    /\ pc = "loop"
    /\ \E d \in LiveDeltas :
           TimerDue(Millis(LiveAdvance(clock, d)), lastConnectionCheckMillis,
                    CONNECTION_CHECK_MS)

\* C16: no failure halts the device: whatever has failed, the loop comes
\* back to a state from which a connectivity check can be taken.  If the
\* link comes up when waited for and thingsboard.connect() does not fail for
\* ever, the device is connected (flag set, session up, subscription armed)
\* again and again, whatever link drops, session drops and restarts happen.
C16_AlwaysRetried ==
    /\ []<>CheckPossible
    /\ []<>Connected
    /\ (~sessionUp /\ otaArmed) ~> Connected

\* The link and the session have dropped LiveCap times or more; the last
\* iteration was blocked in connectWiFi, and its connect succeeded after a
\* failed attempt.
C16_Witness ==
    /\ Connected /\ drops = LiveCap /\ iter.blocked /\ iter.connectOk
    /\ iter.streak > 0

\* millis() has not wrapped since boot.
NoWrap == clock.wraps = 0

\* The telemetry action was due when the last iteration began.
WasDue == Due(iter.n, iter.preLastTel, TELEMETRY_INTERVAL_MS) \/ iter.preSendInit

\* C17: as long as millis() has not wrapped, the telemetry block is reached
\* with mqttConnected true only: every sample read is published and none is
\* dropped.  An iteration whose connect fails returns with the connectivity
\* timer still due and the telemetry state untouched, so a due sample stays
\* due; the immediate-send flag is set until the session is first
\* established; the iteration that establishes the session sends what is due.
C17_TelemetryOnlyWhenConnected ==
    NoWrap =>
        /\ iter.telFired => (iter.flagAtTel /\ iter.published)
        /\ dropped = {}
        /\ published = 1 .. sampleSeq
        /\ (nConnectOk = 0) => (sendInitialTelemetry /\ sampleSeq = 0)
        /\ (IterDone /\ ~mqttConnected) => iter.returned
        /\ (IterDone /\ iter.returned) =>
              /\ ~iter.telFired
              /\ Due(iter.n, lastConnectionCheckMillis, CONNECTION_CHECK_MS)
              /\ lastConnectionCheckMillis = iter.preLastConn
              /\ lastTelemetryMillis = iter.preLastTel
              /\ sendInitialTelemetry = iter.preSendInit
              /\ WasDue =>
                    (Due(iter.n, lastTelemetryMillis, TELEMETRY_INTERVAL_MS)
                        \/ sendInitialTelemetry)
        /\ (IterDone /\ iter.connectOk /\ WasDue) => iter.published

\* The first sample was put off by failed attempts and is published by the
\* iteration that establishes the session.
C17_Witness ==
    /\ NoWrap /\ IterDone /\ iter.connectOk /\ iter.streak > 0
    /\ iter.preSendInit /\ iter.published /\ sampleSeq = 1 /\ ticks >= 3

\* C18: an iteration publishes either after its own connectivity check has
\* found the session connected or established it, or, its timer not being
\* due, less than CONNECTION_CHECK_MS after the now of the last iteration
\* whose check did.  After a check that fired the flag is not stale, and
\* whatever the state the next check that fires leaves it not stale; a
\* sample is published into a dropped session only in an iteration without
\* a check, inside that window.
C18_StaleOnlyUntilNextCheck ==
    /\ iter.published =>
          \/ iter.connFired /\ (iter.query = "up" \/ iter.connectOk)
          \/ /\ ~iter.connFired
             /\ iter.okSeen
             /\ iter.okN = lastConnectionCheckMillis
             /\ LtU32(SubU32(iter.n, iter.okN), U32(CONNECTION_CHECK_MS))
             /\ ~TrueElapsedGe(iter.okClock, nowClock,
                               U32(CONNECTION_CHECK_MS))
    /\ (iter.connFired /\ iter.chkMqtt) => iter.chkSession
    /\ (iter.published /\ ~iter.chkSession) => ~iter.connFired
    /\ (pc = "loop") =>
          \A d \in Deltas, ok \in BOOLEAN :
              LET r == ConnectivityCheck(LoopState, AddU32(Millis(clock), d), ok)
              IN  r.mqttConnected => r.sessionUp

\* A sample was published into a dropped session: the session dropped after
\* the last check, and the next iteration came before the timer was due.
C18_Witness ==
    /\ IterDone /\ iter.published /\ ~iter.chkSession /\ ~iter.connFired
    /\ mqttConnected /\ ~sessionUp

\* C19: whenever less than 2^32 ms of true time have passed since a timer's
\* mark was set, now - mark >= period on the 32-bit register says what true
\* time says, also when millis() has wrapped in between: the timer is due
\* exactly when the true time since the mark has reached the period, and the
\* check, and the telemetry action where the iteration gets to it, fire
\* exactly then.
C19_WrapSafeTimers ==
    IterDone =>
        /\ iter.connSpan =>
              /\ iter.connDue <=> iter.connTrue
              /\ iter.connFired <=> iter.connTrue
        /\ iter.telSpan =>
              /\ iter.telTimer <=> iter.telTrue
              /\ iter.telTimer <=>
                    Due(iter.n, iter.preLastTel, TELEMETRY_INTERVAL_MS)
              /\ (~iter.returned /\ ~iter.preSendInit) =>
                    (iter.telFired <=> iter.telTrue)

\* millis() wrapped between the last telemetry action and now, and the
\* telemetry timer is due with exactly one period gone.
C19_Witness ==
    /\ IterDone /\ LtU32(iter.n, iter.preLastTel) /\ iter.telSpan
    /\ iter.telTimer /\ iter.telFired /\ ~iter.preSendInit
    /\ SubU32(iter.n, iter.preLastTel) = U32(TELEMETRY_INTERVAL_MS)

====
